---- MODULE Spec2Model ----
(***************************************************************************)
(* Model of pisa/stages/pid/param.py: the parameterised PID stage `param`. *)
(*                                                                         *)
(* Conventions.                                                            *)
(*  - Python strings are TLA+ strings.                                     *)
(*  - A numpy array (and a Python scalar, whose numpy shape is ()) is a    *)
(*    record [shape, at]: shape is the tuple of axis lengths and at maps   *)
(*    every 1-based index tuple of that shape to the element.              *)
(*  - Weights are integers in units of 1/10 (9 stands for 0.9).            *)
(*  - A call's outcome is a record with ok = TRUE and the value, or        *)
(*    ok = FALSE, the exception's class and the source line raising it.    *)
(***************************************************************************)
EXTENDS Integers, Sequences, FiniteSets, TLC

(***************************************************************************)
(* Bounds of the model.                                                    *)
(***************************************************************************)
\* Largest number of axes of a candidate input binning.
MaxAxes == 2
\* Largest number of reco_energy bins.
MaxEBins == 3
\* Largest number of transform groups of a stage.
MaxGroups == 2
\* Largest number of from_file calls followed in one behaviour.
MaxReads == 2

(***************************************************************************)
(* Outcomes of a call: a returned value, or a raised exception.            *)
(***************************************************************************)
Ok(v) == [ok |-> TRUE, val |-> v, err |-> "", line |-> 0]
Raise(e, l) == [ok |-> FALSE, val |-> <<>>, err |-> e, line |-> l]

(***************************************************************************)
(* Python str helpers.                                                     *)
(***************************************************************************)
\* s[i:] with a 1-based i.
StrFrom(s, i) == SubSeq(s, i, Len(s))

\* s.replace('bar', ''): every non-overlapping occurrence, left to right.
RECURSIVE replace_bar(_)
replace_bar(s) ==
    IF Len(s) < 3 THEN s
    ELSE IF SubSeq(s, 1, 3) = "bar" THEN replace_bar(StrFrom(s, 4))
    ELSE SubSeq(s, 1, 1) \o replace_bar(StrFrom(s, 2))

\* The positions of '+' in s.
PlusAt(s) == {i \in 1..Len(s) : SubSeq(s, i, i) = "+"}

\* '+' in s
has_plus(s) == PlusAt(s) # {}

Min(S) == CHOOSE x \in S : \A y \in S : x <= y
Max(S) == CHOOSE x \in S : \A y \in S : x >= y

\* s.split('+')[0]
split_first(s) == IF has_plus(s) THEN SubSeq(s, 1, Min(PlusAt(s)) - 1) ELSE s

\* s.split('+')[-1]
split_last(s) == IF has_plus(s) THEN StrFrom(s, Max(PlusAt(s)) + 1) ELSE s

(***************************************************************************)
(* numpy helpers.                                                          *)
(***************************************************************************)
RECURSIVE Size(_)
Size(shape) == IF shape = <<>> THEN 1 ELSE Head(shape) * Size(Tail(shape))

RECURSIVE Indices(_)
Indices(shape) ==
    IF shape = <<>> THEN {<<>>}
    ELSE {<<i>> \o r : i \in 1..Head(shape), r \in Indices(Tail(shape))}

\* The k-th (1-based) index tuple of a shape in C (row-major) order.
RECURSIVE RowMajor(_, _)
RowMajor(shape, k) ==
    IF shape = <<>> THEN <<>>
    ELSE LET rest == Size(Tail(shape))
         IN  <<((k - 1) \div rest) + 1>> \o RowMajor(Tail(shape), ((k - 1) % rest) + 1)

\* The position (1-based) of an index tuple of a shape in C order.
RECURSIVE LinearIndex(_, _)
LinearIndex(shape, idx) ==
    IF shape = <<>> THEN 1
    ELSE (Head(idx) - 1) * Size(Tail(shape)) + LinearIndex(Tail(shape), Tail(idx))

\* a.ravel(): the elements in C order.
Flatten(a) == [k \in 1..Size(a.shape) |-> a.at[RowMajor(a.shape, k)]]

Scalar(c) == [shape |-> <<>>, at |-> [idx \in {<<>>} |-> c]]

\* np.repeat(a, r): the flattened array with each element repeated r times.
np_repeat(a, r) ==
    LET f == Flatten(a)
    IN  [shape |-> <<Len(f) * r>>,
         at    |-> [idx \in Indices(<<Len(f) * r>>) |-> f[((idx[1] - 1) \div r) + 1]]]

\* np.reshape(a, shape): ValueError when the sizes differ.
np_reshape(a, shape) ==
    IF Size(a.shape) # Size(shape)
    THEN Raise("ValueError", 325)
    ELSE Ok([shape |-> shape,
             at    |-> [idx \in Indices(shape) |->
                          Flatten(a)[LinearIndex(shape, idx)]]])

\* a.transpose(axes), axes a permutation of 1..ndim (1-based).
np_transpose(a, axes) ==
    LET n      == Len(a.shape)
        shape2 == [k \in 1..n |-> a.shape[axes[k]]]
    IN  [shape |-> shape2,
         at    |-> [idx \in Indices(shape2) |->
                      a.at[[m \in 1..n |-> idx[CHOOSE k \in 1..n : axes[k] = m]]]]]

\* a.T
np_T(a) == np_transpose(a, [k \in 1..Len(a.shape) |-> Len(a.shape) + 1 - k])

\* np.array([a, b]) for two arrays of one shape.
np_array2(a, b) ==
    [shape |-> <<2>> \o a.shape,
     at    |-> [idx \in Indices(<<2>> \o a.shape) |->
                  IF idx[1] = 1 THEN a.at[Tail(idx)] ELSE b.at[Tail(idx)]]]

\* np.rollaxis(a, axis, start), axis and start 0-based as in numpy.
np_rollaxis(a, axis, start) ==
    LET n == Len(a.shape)
    IN  IF ~(0 <= axis /\ axis < n) \/ ~(0 <= start /\ start < n + 1)
        THEN Raise("ValueError", 365)
        ELSE LET st   == IF axis < start THEN start - 1 ELSE start
                 rem  == [k \in 1..(n - 1) |-> IF k < axis + 1 THEN k ELSE k + 1]
                 axes == SubSeq(rem, 1, st) \o <<axis + 1>> \o SubSeq(rem, st + 1, n - 1)
             IN  Ok(IF axis = st THEN a ELSE np_transpose(a, axes))


(***************************************************************************)
(* Binnings.  An axis (OneDimBinning) is a record of its name, bin edges   *)
(* and weighted centres; a binning (MultiDimBinning) is a sequence of axes *)
(* in declared order.                                                      *)
(***************************************************************************)
Axis(n, e, c) == [name |-> n, bin_edges |-> e, weighted_centers |-> c]

\* reco_energy with n bins; centres 1, 10, 100, ...
EnergyAxis(n) ==
    Axis("reco_energy", [i \in 1..(n + 1) |-> IF i = 1 THEN 0 ELSE 3 * 10^(i - 2)],
         [i \in 1..n |-> 10^(i - 1)])
CoszenAxis == Axis("reco_coszen", <<-10, 0, 10>>, <<-5, 5>>)
AzimuthAxis == Axis("reco_azimuth", <<0, 3, 6>>, <<1, 4>>)
OtherAxis == Axis("true_coszen", <<-10, 0, 10>>, <<-5, 5>>)
\* A pid axis the caller declares in the requested output binning.
DeclaredPid == Axis("pid", <<-3, 5, 10>>, <<1, 7>>)

\* binning.names
names(binning) == [i \in 1..Len(binning) |-> binning[i].name]
\* binning.shape
shape_of(binning) == [i \in 1..Len(binning) |-> Len(binning[i].weighted_centers)]
\* 'x' in binning.names, 'x' in set(binning.names)
has_name(binning, n) == \E i \in 1..Len(binning) : binning[i].name = n
\* binning['x'], binning.x
axis_of(binning, n) == binning[CHOOSE i \in 1..Len(binning) : binning[i].name = n]

\* OneDimBinning(name='pid', bin_edges=[0,1,2])
dummy_pid == Axis("pid", <<0, 1, 2>>, <<0, 1>>)

\* validate_binning: the exception raised, or None returned.
validate_binning(input_binning) ==
    IF ~has_name(input_binning, "reco_energy") THEN Raise("ValueError", 201)
    ELSE IF has_name(input_binning, "reco_azimuth") THEN Raise("ValueError", 208)
    ELSE IF names(input_binning)[1] # "reco_energy" /\ names(input_binning)[1] # "reco_coszen"
         THEN Raise("ValueError", 215)
    ELSE Ok("None")

(***************************************************************************)
(* Parameterisations.  An expression is modelled by the function its text  *)
(* evaluates to: "const" is `lambda E: b`, "lin" is `lambda E: a*E + b`;   *)
(* the rewrite of 'scipy.stats.norm' to 'norm' changes only the name the   *)
(* text reaches a function by.  An entry lists its (key, value) items in   *)
(* the order keys() gives them.                                            *)
(***************************************************************************)
ExprConst(b) == [isstr |-> TRUE, kind |-> "const", a |-> 0, b |-> b]
ExprLin(a, b) == [isstr |-> TRUE, kind |-> "lin", a |-> a, b |-> b]
NotAString == [isstr |-> FALSE, kind |-> "none", a |-> 0, b |-> 0]

Entry(items) == [isdict |-> TRUE, items |-> items]
NotADict == [isdict |-> FALSE, items |-> <<>>]

\* energy_param.keys()
keys(entry) == [i \in 1..Len(entry.items) |-> entry.items[i][1]]
\* energy_param[sig]
getitem(entry, sig) ==
    entry.items[CHOOSE i \in 1..Len(entry.items) : entry.items[i][1] = sig][2]

\* self.output_channels
output_channels == <<"trck", "cscd">>

\* suffix_channel: '%s_%s' % (flavint, channel)
suffix_channel(flavint, channel) == flavint \o "_" \o channel

\* pid_param(ecen): one call on the whole array of centres.
call_expr(e, ecen) ==
    IF e.kind = "const" THEN Scalar(e.b)
    ELSE [shape |-> <<Len(ecen)>>,
          at    |-> [idx \in Indices(<<Len(ecen)>>) |-> e.a * ecen[idx[1]] + e.b]]

\* orient_2d without the transpose of line 328.
orient_2d_untransposed(pid2d, input_binning) == pid2d

\* Lines 327-329: the reshaped array, transposed when coszen is the first axis.
orient_2d(pid2d, input_binning) ==
    IF ~pid2d.ok THEN pid2d
    ELSE IF names(input_binning)[1] = "reco_coszen" THEN Ok(np_T(pid2d.val))
    ELSE pid2d

\* Lines 321-331: pid1d made into the dimensionality of the input binning.
to_binning(pid1d, input_binning) ==
    IF has_name(input_binning, "reco_coszen")
    THEN orient_2d(
             np_reshape(
                 np_repeat(pid1d,
                           Len(axis_of(input_binning, "reco_coszen").weighted_centers)),
                 <<Len(axis_of(input_binning, "reco_energy").weighted_centers),
                   Len(axis_of(input_binning, "reco_coszen").weighted_centers)>>),
             input_binning)
    ELSE Ok(pid1d)

\* Lines 319-331: the weight array of one expression on the input binning.
xform_array_of(e, input_binning) ==
    to_binning(call_expr(e, axis_of(input_binning, "reco_energy").weighted_centers),
               input_binning)

\* find_energy_param on a parameterisation dictionary d.
find_energy_param(d, flavstr) ==
    IF flavstr \notin DOMAIN d
    THEN IF has_plus(flavstr)
         THEN LET nubar == split_last(flavstr)
                  nu    == split_first(flavstr)
              IN  IF replace_bar(nubar) = nu
                  THEN IF nu \in DOMAIN d THEN Ok(d[nu])
                       ELSE Raise("ValueError", 252)
                  ELSE Raise("ValueError", 258)
         ELSE Raise("ValueError", 263)
    ELSE Ok(d[flavstr])

(***************************************************************************)
(* Flavour groups (NuFlavIntGroup): a group lists its flavints; str() of a *)
(* group joins them with '+', and `name in group` is membership.           *)
(***************************************************************************)
RECURSIVE group_str(_)
group_str(g) ==
    IF Len(g) = 1 THEN g[1] ELSE g[1] \o "+" \o group_str(Tail(g))

in_group(input_name, g) == \E i \in 1..Len(g) : g[i] = input_name

\* BinnedTensorTransform(input_names, output_name, input_binning,
\* output_binning, xform_array)
BinnedTensorTransform(input_name, output_name, binning, arr) ==
    [input_names    |-> input_name,
     output_name    |-> output_name,
     input_binning  |-> binning,
     output_binning |-> binning,
     xform_array    |-> arr]

\* Lines 334-344: one transform per input name of the group, in input order.
RECURSIVE group_xforms(_, _, _, _, _)
group_xforms(input_names, g, sig, binning, arr) ==
    IF input_names = <<>> THEN <<>>
    ELSE (IF ~in_group(Head(input_names), g) THEN <<>>
          ELSE <<BinnedTensorTransform(Head(input_names),
                                       suffix_channel(Head(input_names), sig),
                                       binning, arr)>>)
         \o group_xforms(Tail(input_names), g, sig, binning, arr)

\* The transforms xs followed by those of the rest of a loop, unless the
\* rest raised.
followed_by(xs, rest) == IF ~rest.ok THEN rest ELSE Ok(xs \o rest.val)

\* Lines 305-344: the channels of one group from the k-th on.
RECURSIVE channel_loop(_, _, _, _, _)

\* Lines 333-344 for channel k, then the later channels.
channel_emit(arr, energy_param, k, g, input_names, binning) ==
    IF ~arr.ok THEN arr
    ELSE followed_by(group_xforms(input_names, g, output_channels[k], binning, arr.val),
                     channel_loop(energy_param, k + 1, g, input_names, binning))

channel_loop(energy_param, k, g, input_names, binning) ==
    IF k > Len(output_channels) THEN Ok(<<>>)
    ELSE IF ~getitem(energy_param, output_channels[k]).isstr THEN Raise("TypeError", 308)
    ELSE channel_emit(xform_array_of(getitem(energy_param, output_channels[k]), binning),
                      energy_param, k, g, input_names, binning)

\* list(self.output_channels) != energy_param.keys()
channels_mismatch(energy_param) == output_channels # keys(energy_param)

\* Lines 285-344: the groups from the first of `groups` on.
RECURSIVE group_loop(_, _, _, _)

\* The transforms of the first group, then those of the later groups.
followed_by_groups(these, d, groups, input_names, binning) ==
    IF ~these.ok THEN these
    ELSE followed_by(these.val, group_loop(d, Tail(groups), input_names, binning))

\* Lines 289-344 for the first group, then the later groups.
group_body(energy_param, d, groups, input_names, binning) ==
    IF ~energy_param.ok THEN energy_param
    ELSE IF ~energy_param.val.isdict THEN Raise("TypeError", 291)
    ELSE IF channels_mismatch(energy_param.val) THEN Raise("ValueError", 297)
    ELSE followed_by_groups(
             channel_loop(energy_param.val, 1, Head(groups), input_names, binning),
             d, groups, input_names, binning)

group_loop(d, groups, input_names, binning) ==
    IF groups = <<>> THEN Ok(<<>>)
    ELSE group_body(find_energy_param(d, group_str(Head(groups))),
                    d, groups, input_names, binning)


(***************************************************************************)
(* The parameterisation sources the model draws from.                      *)
(***************************************************************************)
E_const == Entry(<< <<"trck", ExprConst(9)>>, <<"cscd", ExprConst(1)>> >>)
E_lin == Entry(<< <<"trck", ExprLin(1, 0)>>, <<"cscd", ExprLin(0, 1)>> >>)
E_lin2 == Entry(<< <<"trck", ExprLin(2, 1)>>, <<"cscd", ExprLin(1, 2)>> >>)
E_rev == Entry(<< <<"cscd", ExprLin(0, 1)>>, <<"trck", ExprLin(1, 0)>> >>)
E_one == Entry(<< <<"trck", ExprLin(1, 0)>> >>)
E_extra == Entry(<< <<"trck", ExprLin(1, 0)>>, <<"cscd", ExprLin(0, 1)>>,
                    <<"other", ExprConst(0)>> >>)
E_nonstr == Entry(<< <<"trck", ExprLin(1, 0)>>, <<"cscd", NotAString>> >>)

D_plain == ("numu_cc" :> E_lin @@ "numubar_cc" :> E_lin2 @@ "nu" :> E_const)
D_const == ("numu_cc" :> E_const)
D_rev == ("numu_cc" :> E_rev @@ "numubar_cc" :> E_extra
          @@ "numu_cc+numubar_cc" :> E_lin2)
D_bad == ("numu_cc" :> E_one @@ "numubar_cc" :> E_nonstr
          @@ "numu_cc+numubar_cc" :> NotADict)
Dicts == {D_plain, D_const, D_rev, D_bad}

\* The resources from_file can read: two files of identical content.
FileContent == ("a.json" :> D_plain @@ "b.json" :> D_plain)
Paths == {"a.json", "b.json", "missing.json"}

PathSrc(p) == [kind |-> "str", path |-> p, dict |-> <<>>]
DictSrc(d) == [kind |-> "dict", path |-> "", dict |-> d]
OtherSrc == [kind |-> "other", path |-> "", dict |-> <<>>]

\* The values params.pid_energy_paramfile can hold (validate_params).
ParamValues == {PathSrc(p) : p \in Paths} \cup {DictSrc(d) : d \in Dicts}
\* The arguments of a direct load_pid_energy_param call.
LoadArgs == ParamValues \cup {OtherSrc}

\* The flavour strings of a direct find_energy_param call.
FlavStrs ==
    {"numu_cc", "numubar_cc", "numu_cc+numubar_cc", "nu+nubar", "nu+notnubar",
     "numu_cc+x+numubar_cc", "x"}

\* from_file(path): the decoded resource, or IOError.
from_file(path) ==
    IF path \in DOMAIN FileContent THEN Ok(FileContent[path])
    ELSE Raise("IOError", 234)

\* hash_obj(obj): a collision-free fingerprint of the object passed, which
\* for a path is the path string and not the file it names.
hash_obj(src) ==
    IF src.kind = "str" THEN <<"str", src.path>>
    ELSE IF src.kind = "dict" THEN <<"dict", src.dict>>
    ELSE <<"other", "">>

(***************************************************************************)
(* The stage.                                                              *)
(***************************************************************************)
VARIABLES
    pc,                 \* "new" before __init__ validates, then "ready" or "rejected"
    input_binning,      \* self.input_binning
    output_binning,     \* self.output_binning
    requested_binning,  \* the output_binning argument of __init__
    transform_groups,   \* self.transform_groups
    input_names,        \* self.input_names (= self.output_names)
    energy_param_dict,  \* self.energy_param_dict, when the attribute exists
    energy_param_hash,  \* self._energy_param_hash, when the attribute exists
    loaded_from,        \* the argument of the most recent successful load
    reader_calls,       \* the number of from_file calls so far
    last                \* the last call: its name, arguments and outcome

vars == <<pc, input_binning, output_binning, requested_binning, transform_groups,
          input_names, energy_param_dict, energy_param_hash, loaded_from,
          reader_calls, last>>

Unset == [has |-> FALSE, val |-> <<>>]
Set(v) == [has |-> TRUE, val |-> v]

\* The sequences of 1..n distinct elements of S.
InjSeqs(S, n) ==
    UNION {{q \in [1..k -> S] : \A i, j \in 1..k : i # j => q[i] # q[j]} : k \in 1..n}

\* The flavor groups flavintGroupsFromString can yield, and the group lists
\* a stage can be constructed with: the constructor relates them in no way to
\* the input names.
GroupUniverse == {<<"numu_cc">>, <<"numubar_cc">>, <<"numu_cc", "numubar_cc">>}
GroupConfigs == InjSeqs(GroupUniverse, MaxGroups)
InputConfigs == {<<"numu_cc">>, <<"numu_cc", "numubar_cc">>}
DefaultGroups == <<<<"numu_cc">>, <<"numubar_cc">>>>
DefaultInputs == <<"numu_cc", "numubar_cc">>

AxisPool(ne) == {EnergyAxis(ne), CoszenAxis, AzimuthAxis, OtherAxis}
CandidateBinnings == UNION {InjSeqs(AxisPool(ne), MaxAxes) : ne \in 1..MaxEBins}

\* The constructor arguments the model draws from: every candidate binning
\* with the default groups, and every group list and input list with an
\* energy-only binning.
Configs ==
    {[input_binning |-> b, requested |-> r, groups |-> DefaultGroups,
      inputs |-> DefaultInputs] :
        b \in CandidateBinnings, r \in {<<>>, <<DeclaredPid>>}}
    \cup
    {[input_binning |-> <<EnergyAxis(3)>>, requested |-> <<>>, groups |-> g,
      inputs |-> n] : g \in GroupConfigs, n \in InputConfigs}

Init ==
    \E cfg \in Configs :
        /\ pc = "new"
        /\ input_binning = cfg.input_binning
        /\ output_binning = cfg.input_binning \o cfg.requested
        /\ requested_binning = cfg.input_binning \o cfg.requested
        /\ transform_groups = cfg.groups
        /\ input_names = cfg.inputs
        /\ energy_param_dict = Unset
        /\ energy_param_hash = Unset
        /\ loaded_from = Unset
        /\ reader_calls = 0
        /\ last = [op |-> "none"]

\* What a call leaves of the loader's attributes when it changes none.
loader_now ==
    [res |-> Ok("None"), hit |-> FALSE, dict |-> energy_param_dict,
     hash |-> energy_param_hash, from |-> loaded_from, reads |-> reader_calls]

\* Lines 237-238 with the mapping read or passed.
store_param(energy_param_dict_, src) ==
    IF ~energy_param_dict_.ok
    THEN [loader_now EXCEPT !.res = energy_param_dict_, !.reads = reader_calls + 1]
    ELSE [loader_now EXCEPT !.dict = Set(energy_param_dict_.val),
                            !.hash = Set(hash_obj(src)),
                            !.from = Set(src),
                            !.reads = IF src.kind = "str" THEN reader_calls + 1
                                      ELSE reader_calls]

\* load_pid_energy_param without the fingerprint test of lines 230-232.
load_pid_energy_param_uncached(src) ==
    IF src.kind = "str" THEN store_param(from_file(src.path), src)
    ELSE IF src.kind = "dict" THEN store_param(Ok(src.dict), src)
    ELSE [loader_now EXCEPT !.res = Raise("UnboundLocalError", 237)]

\* load_pid_energy_param(pid_energy_param): the outcome (hit: it returned at
\* line 232) and the attributes and reader count it leaves.
load_pid_energy_param(src) ==
    IF energy_param_hash.has /\ hash_obj(src) = energy_param_hash.val
    THEN [loader_now EXCEPT !.hit = TRUE]
    ELSE IF src.kind = "str" THEN store_param(from_file(src.path), src)
    ELSE IF src.kind = "dict" THEN store_param(Ok(src.dict), src)
    ELSE [loader_now EXCEPT !.res = Raise("UnboundLocalError", 237)]

\* Lines 284-346 after the load at line 279.
transforms_after_load(ld) ==
    IF ~ld.res.ok THEN ld
    ELSE [ld EXCEPT !.res = group_loop(ld.dict.val, transform_groups,
                                       input_names, input_binning)]

\* _compute_nominal_transforms with params.pid_energy_paramfile.value = src:
\* the TransformSet returned or the exception raised, and what the load left.
compute_nominal_transforms(src) == transforms_after_load(load_pid_energy_param(src))

(***************************************************************************)
(* Stage.get_outputs of the base class, from the specification: it builds  *)
(* the transforms and applies each to the input map of its input name,     *)
(* summing the results that share an output name.                          *)
(***************************************************************************)
\* inputs[name].hist: a histogram of the input binning's shape.
input_hist(shape) ==
    [shape |-> shape, at |-> [idx \in Indices(shape) |-> LinearIndex(shape, idx)]]

\* Whether hist * xform_array is defined: equal shapes, or a scalar weight.
can_apply(arr, hist) == arr.shape = hist.shape \/ arr.shape = <<>>

\* (hist * xform_array)[idx]
applied_at(arr, hist, idx) ==
    hist.at[idx] * (IF arr.shape = <<>> THEN arr.at[<<>>] ELSE arr.at[idx])

RECURSIVE sum_seq(_)
sum_seq(q) == IF q = <<>> THEN 0 ELSE Head(q) + sum_seq(Tail(q))

\* The sum, bin by bin, of the transformed histograms named nm.
sum_named(xforms, nm, hist) ==
    [hist EXCEPT !.at =
        [idx \in DOMAIN hist.at |->
            sum_seq([i \in 1..Len(xforms) |->
                       IF xforms[i].output_name # nm THEN 0
                       ELSE applied_at(xforms[i].xform_array, hist, idx)])]]

\* transforms.apply(inputs): the output histograms by name.
apply_transforms(c, hist) ==
    IF ~c.res.ok THEN c
    ELSE IF \E i \in 1..Len(c.res.val) : ~can_apply(c.res.val[i].xform_array, hist)
    THEN [c EXCEPT !.res = Raise("ValueError", 351)]
    ELSE [c EXCEPT !.res =
            Ok([nm \in {c.res.val[i].output_name : i \in 1..Len(c.res.val)} |->
                  sum_named(c.res.val, nm, hist)])]

super_get_outputs(src) ==
    apply_transforms(compute_nominal_transforms(src),
                     input_hist(shape_of(input_binning)))

\* Map(name, hist, binning)
Map(name, hist, binning) == [name |-> name, hist |-> hist, binning |-> binning]

\* Lines 362-366 for one name, then the later names.
RECURSIVE map_loop(_, _, _)

\* Lines 364-366 with the stacked histogram rolled.
map_emit(hist, outputs, nms, binning) ==
    IF ~hist.ok THEN hist
    ELSE followed_by(<<Map(Head(nms), hist.val, binning)>>,
                     map_loop(outputs, Tail(nms), binning))

\* Lines 361-366: the maps of the output names from the first of `nms` on.
map_loop(outputs, nms, binning) ==
    IF nms = <<>> THEN Ok(<<>>)
    ELSE IF (Head(nms) \o "_cscd") \notin DOMAIN outputs THEN Raise("KeyError", 362)
    ELSE IF (Head(nms) \o "_trck") \notin DOMAIN outputs THEN Raise("KeyError", 363)
    ELSE map_emit(np_rollaxis(np_array2(outputs[Head(nms) \o "_cscd"],
                                        outputs[Head(nms) \o "_trck"]), 0, 3),
                  outputs, nms, binning)

\* Lines 354-358: the output binning restored from the original one.
restored_binning(orig_output_binning) ==
    IF ~has_name(orig_output_binning, "pid")
    THEN Append(orig_output_binning, dummy_pid)
    ELSE orig_output_binning

\* Lines 352-368 with what the base class returned or raised: the outcome,
\* the histograms of the base class, and the attributes left.
outputs_after_super(sup, orig_output_binning) ==
    IF ~sup.res.ok
    THEN [res |-> sup.res, sup_ok |-> FALSE, outputs |-> <<>>,
          output_binning |-> input_binning,
          dict |-> sup.dict, hash |-> sup.hash, from |-> sup.from, reads |-> sup.reads]
    ELSE [res |-> map_loop(sup.res.val, input_names,
                           restored_binning(orig_output_binning)),
          sup_ok |-> TRUE, outputs |-> sup.res.val,
          output_binning |-> restored_binning(orig_output_binning),
          dict |-> sup.dict, hash |-> sup.hash, from |-> sup.from, reads |-> sup.reads]

\* get_outputs(inputs) with the parameter value src.
get_outputs(src) == outputs_after_super(super_get_outputs(src), output_binning)

(***************************************************************************)
(* Actions: one per call on the stage.                                     *)
(***************************************************************************)
\* __init__ (lines 180-193) runs validate_binning on the input binning.
Construct ==
    /\ pc = "new"
    /\ \E r \in {validate_binning(input_binning)} :
        /\ pc' = IF r.ok THEN "ready" ELSE "rejected"
        /\ last' = [op |-> "validate_binning", res |-> r]
    /\ UNCHANGED <<input_binning, output_binning, requested_binning, transform_groups,
                   input_names, energy_param_dict, energy_param_hash, loaded_from,
                   reader_calls>>

\* A direct call load_pid_energy_param(src).
Load ==
    /\ pc = "ready"
    /\ \E src \in LoadArgs :
        \E r \in {load_pid_energy_param(src)} :
            /\ r.reads <= MaxReads
            /\ energy_param_dict' = r.dict
            /\ energy_param_hash' = r.hash
            /\ loaded_from' = r.from
            /\ reader_calls' = r.reads
            /\ last' = [op |-> "load_pid_energy_param", arg |-> src, res |-> r.res,
                        hit |-> r.hit]
    /\ UNCHANGED <<pc, input_binning, output_binning, requested_binning,
                   transform_groups, input_names>>

\* A direct call find_energy_param(flavstr).
Find ==
    /\ pc = "ready"
    /\ \E flavstr \in FlavStrs :
        last' = [op |-> "find_energy_param", arg |-> flavstr,
                 res |-> IF energy_param_dict.has
                         THEN find_energy_param(energy_param_dict.val, flavstr)
                         ELSE Raise("AttributeError", 244)]
    /\ UNCHANGED <<pc, input_binning, output_binning, requested_binning,
                   transform_groups, input_names, energy_param_dict,
                   energy_param_hash, loaded_from, reader_calls>>

\* A call _compute_nominal_transforms() with the parameter value src.
Compute ==
    /\ pc = "ready"
    /\ \E src \in ParamValues :
        \E r \in {compute_nominal_transforms(src)} :
            /\ r.reads <= MaxReads
            /\ energy_param_dict' = r.dict
            /\ energy_param_hash' = r.hash
            /\ loaded_from' = r.from
            /\ reader_calls' = r.reads
            /\ last' = [op |-> "_compute_nominal_transforms", arg |-> src,
                        res |-> r.res, hit |-> r.hit]
    /\ UNCHANGED <<pc, input_binning, output_binning, requested_binning,
                   transform_groups, input_names>>

\* A call get_outputs(inputs) with the parameter value src.
GetOutputs ==
    /\ pc = "ready"
    /\ \E src \in ParamValues :
        \E r \in {get_outputs(src)} :
            /\ r.reads <= MaxReads
            /\ energy_param_dict' = r.dict
            /\ energy_param_hash' = r.hash
            /\ loaded_from' = r.from
            /\ reader_calls' = r.reads
            /\ output_binning' = r.output_binning
            /\ last' = [op |-> "get_outputs", arg |-> src, res |-> r.res,
                        sup_ok |-> r.sup_ok, outputs |-> r.outputs]
    /\ UNCHANGED <<pc, input_binning, requested_binning, transform_groups,
                   input_names>>

Next == Construct \/ Load \/ Find \/ Compute \/ GetOutputs

Spec == Init /\ [][Next]_vars

(***************************************************************************)
(* Properties.                                                             *)
(***************************************************************************)
Range(q) == {q[i] : i \in 1..Len(q)}

\* The last call was _compute_nominal_transforms and returned a TransformSet.
ComputeReturned == last.op = "_compute_nominal_transforms" /\ last.res.ok

\* The groups (by position) that contain input name n.
GroupsWith(n) ==
    {i \in 1..Len(transform_groups) : in_group(n, transform_groups[i])}

\* The returned transforms (by position) whose output name is nm.
XformsNamed(nm) ==
    {j \in 1..Len(last.res.val) : last.res.val[j].output_name = nm}

\* The expression the loaded parameterisation holds for group i, channel sig.
GroupExpr(i, sig) ==
    getitem(find_energy_param(energy_param_dict.val,
                              group_str(transform_groups[i])).val, sig)

\* The weight array evaluated for group i and channel sig.
GroupArray(i, sig) == xform_array_of(GroupExpr(i, sig), input_binning).val

\* The value at energy E of the function an expression denotes.
CurveAt(e, E) == IF e.kind = "const" THEN e.b ELSE e.a * E + e.b

\* The 1-D array of the elements of q.
Arr1D(q) == [shape |-> <<Len(q)>>, at |-> [idx \in Indices(<<Len(q)>>) |-> q[idx[1]]]]

\* The binnings the stage supports: energy only, or energy and zenith.
Supported(binning) ==
    names(binning) \in {<<"reco_energy">>, <<"reco_energy", "reco_coszen">>,
                        <<"reco_coszen", "reco_energy">>}

C2_ShapeOfBinning ==
    (ComputeReturned /\ Supported(input_binning)) =>
        \A j \in 1..Len(last.res.val) :
            last.res.val[j].xform_array.shape = shape_of(input_binning)

\* C3: when the input binning has reco_energy and reco_coszen, every weight
\* array built is 2-D and holds at [e][z] (reco_energy first) or [z][e]
\* (reco_coszen first) the value at energy bin e of the curve of a group
\* containing the transform's input, for the transform's channel.
C3_BroadcastAcrossZenith ==
    (ComputeReturned /\ has_name(input_binning, "reco_coszen")) =>
        LET ecen == axis_of(input_binning, "reco_energy").weighted_centers
            ncz  == Len(axis_of(input_binning, "reco_coszen").weighted_centers)
            efirst == names(input_binning)[1] = "reco_energy"
        IN  \A j \in 1..Len(last.res.val) :
              \E i \in GroupsWith(last.res.val[j].input_names),
                 k \in 1..Len(output_channels) :
                /\ last.res.val[j].output_name
                     = suffix_channel(last.res.val[j].input_names, output_channels[k])
                /\ last.res.val[j].xform_array.shape
                     = (IF efirst THEN <<Len(ecen), ncz>> ELSE <<ncz, Len(ecen)>>)
                /\ \A e \in 1..Len(ecen), z \in 1..ncz :
                      last.res.val[j].xform_array.at[IF efirst THEN <<e, z>> ELSE <<z, e>>]
                        = CurveAt(GroupExpr(i, output_channels[k]), ecen[e])

\* Transforms were built on a binning whose first axis is reco_coszen and
\* whose energy axis has another length than the zenith axis.
C3_Witness ==
    /\ ComputeReturned
    /\ Len(last.res.val) > 0
    /\ names(input_binning) = <<"reco_coszen", "reco_energy">>
    /\ Len(axis_of(input_binning, "reco_energy").weighted_centers) = 3

\* C4, as claimed: find_energy_param returns the entry under the name when
\* the name is a key; else, when the name is 'X+Y' of two halves with Y less
\* 'bar' equal to X and X a key, the entry under X; else it raises.
C4_LookupResolution ==
    (last.op = "find_energy_param" /\ energy_param_dict.has) =>
        LET d == energy_param_dict.val
            X == split_first(last.arg)
            Y == split_last(last.arg)
        IN  IF last.arg \in DOMAIN d THEN last.res = Ok(d[last.arg])
            ELSE IF /\ Cardinality(PlusAt(last.arg)) = 1
                    /\ replace_bar(Y) = X
                    /\ X \in DOMAIN d
                 THEN last.res = Ok(d[X])
                 ELSE ~last.res.ok

\* C5, as claimed: the channel validation of the (first) group's entry fails
\* with the error of line 297 when the set of the entry's keys is not
\* {trck, cscd}, and passes when it is, in whatever order the keys are kept.
C5_ChannelSetValidation ==
    LET entry == find_energy_param(energy_param_dict.val,
                                   group_str(transform_groups[1]))
    IN  (/\ last.op = "_compute_nominal_transforms"
         /\ last.res.err # "IOError"
         /\ entry.ok
         /\ entry.val.isdict) =>
            /\ Range(keys(entry.val)) # Range(output_channels)
                 => last.res = Raise("ValueError", 297)
            /\ (Range(keys(entry.val)) = Range(output_channels)
                /\ Len(transform_groups) = 1)
                 => last.res # Raise("ValueError", 297)

\* C6, as claimed: on an energy-only or energy+zenith binning, once the base
\* class has returned both histograms of every output name, get_outputs
\* returns for each name a histogram with the pid axis last, whose slice 0 is
\* the cascade histogram and whose slice 1 is the track histogram.
C6_Recombination ==
    (/\ last.op = "get_outputs"
     /\ last.sup_ok
     /\ Supported(input_binning)
     /\ \A n \in Range(input_names) :
           {n \o "_cscd", n \o "_trck"} \subseteq DOMAIN last.outputs) =>
        /\ last.res.ok
        /\ Len(last.res.val) = Len(input_names)
        /\ \A i \in 1..Len(input_names) :
            LET cscd == last.outputs[input_names[i] \o "_cscd"]
                trck == last.outputs[input_names[i] \o "_trck"]
                hist == last.res.val[i].hist
            IN  /\ last.res.val[i].name = input_names[i]
                /\ hist.shape = cscd.shape \o <<2>>
                /\ \A idx \in DOMAIN cscd.at :
                    /\ hist.at[idx \o <<1>>] = cscd.at[idx]
                    /\ hist.at[idx \o <<2>>] = trck.at[idx]

\* C7, as claimed: validate_binning rejects a binning without reco_energy,
\* with reco_azimuth, or whose first axis is neither reco_energy nor
\* reco_coszen, and every binning it accepts is energy-only or the two-axis
\* energy+zenith case.
C7_ValidateBinning ==
    last.op = "validate_binning" =>
        /\ (\/ ~has_name(input_binning, "reco_energy")
            \/ has_name(input_binning, "reco_azimuth")
            \/ names(input_binning)[1] \notin {"reco_energy", "reco_coszen"})
              => ~last.res.ok
        /\ last.res.ok => Supported(input_binning)

\* C8, as claimed: the single group numu_cc with the constant expressions
\* 0.9 (trck) and 0.1 (cscd), energy centres [1, 10, 100] and the input
\* numu_cc yield numu_cc -> numu_cc_trck with [0.9, 0.9, 0.9] and
\* numu_cc -> numu_cc_cscd with [0.1, 0.1, 0.1].
C8_ConstantScenario ==
    (/\ last.op = "_compute_nominal_transforms"
     /\ last.arg = DictSrc(D_const)
     /\ transform_groups = <<<<"numu_cc">>>>
     /\ input_names = <<"numu_cc">>
     /\ names(input_binning) = <<"reco_energy">>
     /\ input_binning[1].weighted_centers = <<1, 10, 100>>) =>
        /\ last.res.ok
        /\ \E j \in 1..Len(last.res.val) :
            /\ last.res.val[j].input_names = "numu_cc"
            /\ last.res.val[j].output_name = "numu_cc_trck"
            /\ last.res.val[j].xform_array = Arr1D(<<9, 9, 9>>)
        /\ \E j \in 1..Len(last.res.val) :
            /\ last.res.val[j].input_names = "numu_cc"
            /\ last.res.val[j].output_name = "numu_cc_cscd"
            /\ last.res.val[j].xform_array = Arr1D(<<1, 1, 1>>)

\* The requested output binning with exactly one pid axis.
ExpectedBinning ==
    IF has_name(requested_binning, "pid") THEN requested_binning
    ELSE Append(requested_binning, dummy_pid)

\* C9, as claimed: whenever get_outputs returns, the binning of the returned
\* maps and self.output_binning are the requested output binning with exactly
\* one pid axis: the dummy axis appended when it declares none, the declared
\* binning verbatim when it declares one.
C9_OnePidAxis ==
    (last.op = "get_outputs" /\ last.res.ok) =>
        /\ output_binning = ExpectedBinning
        /\ \A i \in 1..Len(last.res.val) : last.res.val[i].binning = ExpectedBinning

\* A step that runs load_pid_energy_param: the call itself, or a call of
\* _compute_nominal_transforms or get_outputs, whose first act it is.
LoadStep ==
    last'.op \in {"load_pid_energy_param", "_compute_nominal_transforms",
                  "get_outputs"}

\* The step leaves the loader as it was and reads no resource.
LoaderUntouched ==
    /\ reader_calls' = reader_calls
    /\ energy_param_dict' = energy_param_dict
    /\ energy_param_hash' = energy_param_hash

\* The mapping a source holds: the file's for a readable path, itself for a
\* mapping.
HasContent(src) == src.kind = "dict" \/ src.path \in DOMAIN FileContent
Content(src) == IF src.kind = "dict" THEN src.dict ELSE FileContent[src.path]

\* C10, as claimed: a load whose source has the same content as the source
\* of the most recent successful load invokes no reader and leaves
\* energy_param_dict and the fingerprint unchanged.
C10_SameContentIsNoOp ==
    [][(/\ LoadStep
        /\ energy_param_dict.has
        /\ HasContent(last'.arg)
        /\ Content(last'.arg) = energy_param_dict.val) => LoaderUntouched]_vars

\* C10, amended: a load whose argument (the path string, or the mapping)
\* equals the argument of the most recent successful load invokes no reader
\* and leaves energy_param_dict and the fingerprint unchanged.
C10_SameArgumentIsNoOp ==
    [][(/\ LoadStep
        /\ loaded_from.has
        /\ last'.arg = loaded_from.val) => LoaderUntouched]_vars

\* A direct load of a path returned at the fingerprint test, the reader
\* having been invoked once in all.
C10_Witness ==
    /\ last.op = "load_pid_energy_param"
    /\ last.hit
    /\ last.arg.kind = "str"
    /\ loaded_from = Set(last.arg)
    /\ reader_calls = 1
====
